---- MODULE Spec2Model ----
(***************************************************************************)
(* The newsletter job of newsletter.py: main() walks the configured topics, *)
(* fetches the articles of each from the news API, summarizes each article  *)
(* with the language model, appends an HTML fragment per article to the     *)
(* email body and finally hands the body to the SMTP sender.                *)
(*                                                                          *)
(* The three external services are the environment: what the news API, the  *)
(* completion API and the SMTP relay answer is chosen nondeterministically. *)
(* The email body is modelled as the sequence of the pieces concatenated    *)
(* into the string (header, topic headings, article fragments).             *)
(***************************************************************************)
EXTENDS Naturals, Sequences, FiniteSets, TLC

(***************************************************************************)
(* Bounds of the model.                                                     *)
(***************************************************************************)
\* longest article list the news API answers with in Spec
MaxArticles == 2
\* longest article list of the state SpecArticle starts in
MaxRichArticles == 1

(***************************************************************************)
(* Python values.                                                           *)
(***************************************************************************)
\* a key that is not in the dict
Absent == "<key absent>"
\* Python's None (JSON null)
NoneValue == "<None>"
\* a local that holds no live value
Unset == "<unset>"
NoException == "<no exception>"

\* str(v), as an f-string formats a value
Str(v) == IF v = NoneValue THEN "None" ELSE v

\* bool(v) of a string or None
Truthy(v) == v \notin {NoneValue, ""}

\* d.get(key, default): the default only when the key is missing
DictGet(d, key, default) == IF d[key] = Absent THEN default ELSE d[key]

\* x or y
PyOr(x, y) == IF Truthy(x) THEN x ELSE y

\* a value that is a list or None: the return value of fetch_articles
PyList(items) == [none |-> FALSE, list |-> items]
PyNone == [none |-> TRUE, list |-> <<>>]
EmptyList == PyList(<<>>)

\* `not articles`
ListIsFalsy(v) == v.none \/ v.list = <<>>

\* s.strip() on the texts the completion API answers with
Strip(s) == CASE s = " s1\n" -> "s1" [] s = "\n" -> "" [] OTHER -> s

(***************************************************************************)
(* Configuration and fixed texts of main().                                 *)
(***************************************************************************)
topics_of_interest == <<"AI in medicine", "US economic outlook", "NASA Artemis program">>
NumTopics == Len(topics_of_interest)

NoContentSentinel == "No content provided to summarize."
CouldNotSentinel == "Could not summarize this article."
NoTitle == "No Title"
NoUrl == "#"

AuthFailedLog == "---!!! AUTHENTICATION FAILED !!!---"
SendErrorLog == "Error sending email"
SentLog == "Email sent successfully!"
NoEmailLog == "No articles found for any topic. No email to send."
NoLog == "<nothing logged>"

\* one piece of the HTML string
Piece(tag, text, href, summary) ==
    [tag |-> tag, text |-> text, href |-> href, summary |-> summary]

\* the initial value of email_body
Header == Piece("h1", "Your AI-Powered News Briefing", "", "")

\* <h2>Today's News on: {topic}</h2>
Heading(topic) == Piece("h2", topic, "", "")

(***************************************************************************)
(* Articles.                                                                *)
(***************************************************************************)
Article(t, u, c, d) == [title |-> t, url |-> u, content |-> c, description |-> d]

\* every combination of missing, null, empty and present fields
AllArticles ==
    {Article(t, u, c, d) : t \in {Absent, NoneValue, "T1"},
                           u \in {Absent, NoneValue, "u1"},
                           c \in {Absent, NoneValue, "", "c1"},
                           d \in {Absent, NoneValue, "", "d1"}}

\* the articles the news API answers with in Spec: a complete one, and one
\* with a null title, no url, an empty content and a null description
ArticlePool ==
    {Article("T1", "u1", "c1", "d1"), Article(NoneValue, Absent, "", NoneValue)}

SeqsUpTo(S, n) == UNION {[1..k -> S] : k \in 0..n}

(***************************************************************************)
(* The news API (environment) and fetch_articles.                           *)
(***************************************************************************)
\* What one GET does: `raises` is the exception lines 43-46 raise (requests.get,
\* raise_for_status, response.json), isObject whether the decoded body is a
\* JSON object, hasArticles whether it has the key "articles", articles its value.
Response(raises, isObject, hasArticles, articles) ==
    [raises |-> raises, isObject |-> isObject, hasArticles |-> hasArticles,
     articles |-> articles]

NoResponse == Response(Unset, FALSE, FALSE, PyNone)

\* response.json() on a body that is not JSON raises requests' JSONDecodeError
\* (a RequestException) from requests 2.27 on, and a plain ValueError before.
NewsResponses(pool, maxLen) ==
    {Response(e, FALSE, FALSE, PyNone) :
        e \in {"ConnectionError", "HTTPError", "JSONDecodeError", "ValueError"}}
    \cup {Response(NoException, FALSE, FALSE, PyNone),
          Response(NoException, TRUE, FALSE, PyNone),
          Response(NoException, TRUE, TRUE, PyNone)}
    \cup {Response(NoException, TRUE, TRUE, PyList(l)) : l \in SeqsUpTo(pool, maxLen)}

\* fault: the handler written as `except requests.exceptions.ConnectionError`
IsRequestException_ConnectionOnly(exc) == exc \in {"ConnectionError"}

\* the classes `except requests.exceptions.RequestException` catches
IsRequestException(exc) == exc \in {"ConnectionError", "HTTPError", "JSONDecodeError"}

\* data.get("articles", [])
DataGetArticles(r) == IF r.hasArticles THEN r.articles ELSE EmptyList

\* the exception raised inside the try block of fetch_articles
FetchRaises(r) ==
    IF r.raises # NoException THEN r.raises
    ELSE IF ~r.isObject THEN "AttributeError"
    ELSE NoException

\* fetch_articles: the value returned, or the exception that escapes, and the
\* exception that was caught
fetch_articles(r) ==
    LET exc == FetchRaises(r) IN
    IF exc = NoException
      THEN [raised |-> NoException, caught |-> NoException, value |-> DataGetArticles(r)]
    ELSE IF IsRequestException(exc)
      THEN [raised |-> NoException, caught |-> exc, value |-> EmptyList]
    ELSE [raised |-> exc, caught |-> NoException, value |-> PyNone]

(***************************************************************************)
(* The completion API (environment) and summarize_article.                  *)
(***************************************************************************)
\* What one completion request does: `raises` is the exception create() raises,
\* choices the number of choices of the response, content the message text of
\* the first choice.
Completion(raises, choices, content) ==
    [raises |-> raises, choices |-> choices, content |-> content]

NoCompletion == Completion(Unset, 0, NoneValue)

Completions ==
    {Completion(e, 0, NoneValue) : e \in {"AuthenticationError", "APITimeoutError"}}
    \cup {Completion(NoException, 0, NoneValue), Completion(NoException, 1, NoneValue)}
    \cup {Completion(NoException, 1, t) : t \in {"s1", " s1\n"}}

\* the exception raised inside the try block of summarize_article
CompletionRaises(c) ==
    IF c.raises # NoException THEN c.raises
    ELSE IF c.choices = 0 THEN "IndexError"
    ELSE IF c.content = NoneValue THEN "AttributeError"
    ELSE NoException

\* fault: the handler written as `except openai.APIError`
IsException_ApiErrorsOnly(exc) == exc \in {"AuthenticationError", "APITimeoutError"}

\* the classes `except Exception` catches
IsException(exc) == exc # NoException

\* fault: the guard written as `if article_content is None`
NoContentProvided_NoneOnly(article_content) == article_content = NoneValue

\* `if not article_content`: the summarizer answers without calling the API
NoContentProvided(article_content) == ~Truthy(article_content)

\* summarize_article from the call of the API on
SummarizeCompletion(c) ==
    LET exc == CompletionRaises(c) IN
    IF exc = NoException THEN [raised |-> NoException, value |-> Strip(c.content)]
    ELSE IF IsException(exc) THEN [raised |-> NoException, value |-> CouldNotSentinel]
    ELSE [raised |-> exc, value |-> Unset]

(***************************************************************************)
(* The SMTP relay (environment) and send_email.                             *)
(***************************************************************************)
\* What the SMTP session does: the call that raises, and the exception.
Session(stage, exc) == [stage |-> stage, exc |-> exc]

NoSession == Session(Unset, Unset)

SmtpSessions ==
    {Session("connect", "OSError"), Session("starttls", "SMTPException"),
     Session("login", "SMTPAuthenticationError"), Session("login", "SMTPException"),
     Session("sendmail", "SMTPRecipientsRefused"),
     Session("quit", "SMTPServerDisconnected"), Session("done", NoException)}

\* server.sendmail is called when nothing before it raised
ReachesSendmail(s) == s.stage \in {"sendmail", "quit", "done"}

\* fault: the handlers in the other order, `except Exception` first
SendLog_GenericFirst(s) == IF s.exc = NoException THEN SentLog ELSE SendErrorLog

\* the message send_email prints
SendLog(s) ==
    IF s.exc = NoException THEN SentLog
    ELSE IF s.exc = "SMTPAuthenticationError" THEN AuthFailedLog
    ELSE SendErrorLog

\* send_email: the exception that escapes it, what it logs, and the number of
\* sendmail transmissions
send_email(s) ==
    [raised |-> NoException, log |-> SendLog(s),
     sendmail |-> IF ReachesSendmail(s) THEN 1 ELSE 0]

(***************************************************************************)
(* The composition steps of main().                                         *)
(***************************************************************************)
\* fault: the operands of `or` swapped
SelectContentOf_DescriptionFirst(article) ==
    PyOr(DictGet(article, "description", NoneValue), DictGet(article, "content", NoneValue))

\* article.get('content') or article.get('description')
SelectContentOf(article) ==
    PyOr(DictGet(article, "content", NoneValue), DictGet(article, "description", NoneValue))

\* the <div> of one article
ArticleFragment(article, summary) ==
    Piece("div", Str(DictGet(article, "title", NoTitle)),
                 Str(DictGet(article, "url", NoUrl)), Str(summary))

\* fault: the heading appended before the `if not articles` check
BodyAfterFetch_HeadingAlways(body, topic, result) == Append(body, Heading(topic))

\* lines 142-146: a topic without articles adds nothing to the body
BodyAfterFetch(body, topic, result) ==
    IF ListIsFalsy(result) THEN body ELSE Append(body, Heading(topic))

\* fault: email_body = fragment + email_body
BodyAfterArticle_Prepended(body, article, summary) ==
    <<ArticleFragment(article, summary)>> \o body

\* lines 160-165: email_body += fragment
BodyAfterArticle(body, article, summary) ==
    Append(body, ArticleFragment(article, summary))

\* `if email_body`
BodyIsTruthy(body) == body # <<>>

(***************************************************************************)
(* State.                                                                   *)
(***************************************************************************)
VARIABLES
    pc,                   \* where main() is
    ti,                   \* index of the topic of the outer loop
    articles,             \* the articles of the topic
    ai,                   \* index of the article of the inner loop
    content_to_summarize, \* local of main()
    summary,              \* local of main()
    email_body,           \* the pieces of the HTML string
    response,             \* what the news API does with the GET in flight
    completion,           \* what the completion API does with the request in flight
    fetchLog,             \* the topics requested from the news API, in order
    fetched,              \* per topic fetched: what fetch_articles caught and returned
    sumLog,               \* per call of summarize_article: article, input and result
    llmCalls,             \* requests sent to the completion API
    sendCalls,            \* calls of send_email
    sendmailCalls,        \* server.sendmail transmissions
    smtpSession,          \* what the SMTP relay did
    smtpLog,              \* what the send step printed
    escaped               \* the exception that escaped main()

vars == <<pc, ti, articles, ai, content_to_summarize, summary, email_body, response,
          completion, fetchLog, fetched, sumLog, llmCalls, sendCalls, sendmailCalls,
          smtpSession, smtpLog, escaped>>

loopVars == <<ti, articles, ai, content_to_summarize, summary, email_body>>
sendVars == <<sendCalls, sendmailCalls, smtpSession, smtpLog>>

Init ==
    /\ pc = "topics"
    /\ ti = 1
    /\ articles = <<>>
    /\ ai = 0
    /\ content_to_summarize = Unset
    /\ summary = Unset
    /\ email_body = <<Header>>
    /\ response = NoResponse
    /\ completion = NoCompletion
    /\ fetchLog = <<>>
    /\ fetched = <<>>
    /\ sumLog = <<>>
    /\ llmCalls = 0
    /\ sendCalls = 0
    /\ sendmailCalls = 0
    /\ smtpSession = NoSession
    /\ smtpLog = NoLog
    /\ escaped = NoException

\* an exception leaves main()
Abort(exc) ==
    /\ pc' = "aborted"
    /\ escaped' = exc

(***************************************************************************)
(* Actions.                                                                 *)
(***************************************************************************)
\* lines 139-43: the next topic; fetch_articles sends the GET
HttpGet(pool, maxLen) ==
    /\ pc = "topics"
    /\ ti <= NumTopics
    /\ fetchLog' = Append(fetchLog, topics_of_interest[ti])
    /\ \E r \in NewsResponses(pool, maxLen) : response' = r
    /\ pc' = "http"
    /\ UNCHANGED <<loopVars, completion, fetched, sumLog, llmCalls, sendVars, escaped>>

\* lines 44-54 and 142-146: fetch_articles returns, main() skips the topic or
\* appends its heading
FetchReturn ==
    /\ pc = "http"
    /\ response' = NoResponse
    /\ LET out == fetch_articles(response) IN
       IF out.raised # NoException
         THEN /\ Abort(out.raised)
              /\ UNCHANGED <<loopVars, fetched>>
         ELSE /\ fetched' = Append(fetched, [caught |-> out.caught, result |-> out.value])
              /\ email_body' = BodyAfterFetch(email_body, topics_of_interest[ti], out.value)
              /\ articles' = out.value.list
              /\ IF ListIsFalsy(out.value)
                   THEN /\ ti' = ti + 1
                        /\ pc' = "topics"
                        /\ UNCHANGED ai
                   ELSE /\ ai' = 1
                        /\ pc' = "article"
                        /\ UNCHANGED ti
              /\ UNCHANGED <<content_to_summarize, summary, escaped>>
    /\ UNCHANGED <<completion, fetchLog, sumLog, llmCalls, sendVars>>

\* lines 149-155: the text to summarize
SelectContent ==
    /\ pc = "article"
    /\ content_to_summarize' = SelectContentOf(articles[ai])
    /\ pc' = "summarize"
    /\ UNCHANGED <<ti, articles, ai, summary, email_body, response, completion, fetchLog,
                   fetched, sumLog, llmCalls, sendVars, escaped>>

LogEntry(input, llm, result) ==
    [topic |-> ti, idx |-> ai, input |-> input, llm |-> llm, result |-> result]

\* lines 157 and 63-69: summarize_article answers at once, or calls the API
SummarizeCall ==
    /\ pc = "summarize"
    /\ IF NoContentProvided(content_to_summarize)
         THEN /\ summary' = NoContentSentinel
              /\ sumLog' = Append(sumLog, LogEntry(content_to_summarize, FALSE, NoContentSentinel))
              /\ pc' = "append"
              /\ UNCHANGED <<completion, llmCalls>>
         ELSE /\ llmCalls' = llmCalls + 1
              /\ \E c \in Completions : completion' = c
              /\ pc' = "completion"
              /\ UNCHANGED <<summary, sumLog>>
    /\ UNCHANGED <<ti, articles, ai, content_to_summarize, email_body, response, fetchLog,
                   fetched, sendVars, escaped>>

\* lines 76-82: summarize_article returns the summary or the sentinel
SummarizeReturn ==
    /\ pc = "completion"
    /\ completion' = NoCompletion
    /\ LET out == SummarizeCompletion(completion) IN
       IF out.raised # NoException
         THEN /\ Abort(out.raised)
              /\ UNCHANGED <<summary, sumLog>>
         ELSE /\ summary' = out.value
              /\ sumLog' = Append(sumLog, LogEntry(content_to_summarize, TRUE, out.value))
              /\ pc' = "append"
              /\ UNCHANGED escaped
    /\ UNCHANGED <<ti, articles, ai, content_to_summarize, email_body, response, fetchLog,
                   fetched, llmCalls, sendVars>>

\* lines 150-151 and 160-165: the fragment of the article; the next article, or
\* the next topic. The locals of the iteration are dead from here on.
AppendArticle ==
    /\ pc = "append"
    /\ email_body' = BodyAfterArticle(email_body, articles[ai], summary)
    /\ IF ai < Len(articles)
         THEN /\ ai' = ai + 1
              /\ pc' = "article"
              /\ UNCHANGED <<ti, articles>>
         ELSE /\ ti' = ti + 1
              /\ articles' = <<>>
              /\ ai' = 0
              /\ pc' = "topics"
    /\ content_to_summarize' = Unset
    /\ summary' = Unset
    /\ UNCHANGED <<response, completion, fetchLog, fetched, sumLog, llmCalls, sendVars,
                   escaped>>

\* lines 168-176 and 87-120: after the last topic the body goes to send_email,
\* and main() prints that it is complete
SendEmail ==
    /\ pc = "topics"
    /\ ti > NumTopics
    /\ IF BodyIsTruthy(email_body)
         THEN \E s \in SmtpSessions :
                LET out == send_email(s) IN
                /\ sendCalls' = sendCalls + 1
                /\ smtpSession' = s
                /\ sendmailCalls' = sendmailCalls + out.sendmail
                /\ smtpLog' = out.log
                /\ IF out.raised # NoException
                     THEN Abort(out.raised)
                     ELSE pc' = "complete" /\ UNCHANGED escaped
         ELSE /\ smtpLog' = NoEmailLog
              /\ pc' = "complete"
              /\ UNCHANGED <<sendCalls, sendmailCalls, smtpSession, escaped>>
    /\ UNCHANGED <<loopVars, response, completion, fetchLog, fetched, sumLog, llmCalls>>

Next ==
    \/ HttpGet(ArticlePool, MaxArticles)
    \/ FetchReturn
    \/ SelectContent
    \/ SummarizeCall
    \/ SummarizeReturn
    \/ AppendArticle
    \/ SendEmail

Spec == Init /\ [][Next]_vars

(***************************************************************************)
(* The article pipeline on every shape of article: main() has fetched the   *)
(* last topic, the earlier topics gave nothing, and the fetcher returned    *)
(* any list of articles with missing, null, empty or present fields.        *)
(***************************************************************************)
InitArticle ==
    /\ pc = "article"
    /\ ti = NumTopics
    /\ \E k \in 1..MaxRichArticles : articles \in [1..k -> AllArticles]
    /\ ai = 1
    /\ content_to_summarize = Unset
    /\ summary = Unset
    /\ email_body = <<Header, Heading(topics_of_interest[NumTopics])>>
    /\ response = NoResponse
    /\ completion = NoCompletion
    /\ fetchLog = topics_of_interest
    /\ fetched = [t \in 1..NumTopics |->
                    IF t < NumTopics
                      THEN [caught |-> "ConnectionError", result |-> EmptyList]
                      ELSE [caught |-> NoException, result |-> PyList(articles)]]
    /\ sumLog = <<>>
    /\ llmCalls = 0
    /\ sendCalls = 0
    /\ sendmailCalls = 0
    /\ smtpSession = NoSession
    /\ smtpLog = NoLog
    /\ escaped = NoException

NextArticle ==
    \/ SelectContent
    \/ SummarizeCall
    \/ SummarizeReturn
    \/ AppendArticle
    \/ SendEmail

SpecArticle == InitArticle /\ [][NextArticle]_vars

(***************************************************************************)
(* Vocabulary of the properties.                                            *)
(***************************************************************************)
\* fetch_articles returned at least one article for topic t
HasArticles(t) == ~fetched[t].result.none /\ Len(fetched[t].result.list) >= 1

ReturnedTopics == 1..Len(fetched)

PiecesTagged(tag) == {k \in 1..Len(email_body) : email_body[k].tag = tag}

\* the articles returned so far, as <<topic, index>>
ReturnedArticles ==
    UNION {{<<t, i>> : i \in 1..Len(fetched[t].result.list)} : t \in ReturnedTopics}

\* the calls of summarize_article made for article i of topic t
CallsFor(t, i) == {k \in 1..Len(sumLog) : sumLog[k].topic = t /\ sumLog[k].idx = i}

\* main() is between two topics, or past the last one
BetweenTopics == pc \in {"topics", "http", "complete"}

\* the run is over: main() returned, or an exception left it
RunEnded == pc \in {"complete", "aborted"}

\* a field that is there and not null
HasValue(v) == v \notin {Absent, NoneValue}

\* a field that is there, not null and not empty
NonEmpty(v) == v \notin {Absent, NoneValue, ""}

\* the pieces the returned topics 1..t put into the body, in order: <<t, 0>> is
\* the heading of topic t and <<t, i>> the fragment of its article i
RECURSIVE Layout(_)
Layout(t) ==
    IF t = 0 THEN <<<<0, 0>>>>
    ELSE Layout(t - 1) \o
         (IF HasArticles(t)
            THEN <<<<t, 0>>>> \o [i \in 1..Len(fetched[t].result.list) |-> <<t, i>>]
            ELSE <<>>)

ArticleAt(d) == fetched[d[1]].result.list[d[2]]

(***************************************************************************)
(* C1: the number of topic headings in the body equals the number of        *)
(* fetched topics that returned at least one article; a topic that returned *)
(* no article has no heading, no fragment, and no summarize_article call.   *)
(***************************************************************************)
C1_HeadingsMatchTopicsWithArticles ==
    /\ Cardinality(PiecesTagged("h2")) = Cardinality({t \in ReturnedTopics : HasArticles(t)})
    /\ \A t \in ReturnedTopics :
         ~HasArticles(t) =>
            /\ \A k \in 1..Len(email_body) : email_body[k] # Heading(topics_of_interest[t])
            /\ \A k \in 1..Len(sumLog) : sumLog[k].topic # t
    /\ BetweenTopics => Cardinality(PiecesTagged("div")) = Cardinality(ReturnedArticles)

C1_Witness ==
    /\ pc = "complete"
    /\ \E t \in ReturnedTopics : ~HasArticles(t)
    /\ \E t \in ReturnedTopics : HasArticles(t)

(***************************************************************************)
(* C2: in every run of main() the mail sender is invoked exactly once, only *)
(* after every topic was fetched and every returned article summarized,     *)
(* and never a second time.                                                 *)
(***************************************************************************)
C2_SentExactlyOncePerRun ==
    /\ sendCalls <= 1
    /\ sendCalls = 1 =>
         /\ fetchLog = topics_of_interest
         /\ Len(fetched) = NumTopics
         /\ \A ta \in ReturnedArticles : CallsFor(ta[1], ta[2]) # {}
    /\ RunEnded => sendCalls = 1

(***************************************************************************)
(* C3: no failure of an external call is fatal: no exception leaves main(), *)
(* and a finished run has requested every topic in order, summarized every  *)
(* returned article and attempted the send.                                 *)
(***************************************************************************)
C3_NoExternalFailureIsFatal ==
    /\ pc # "aborted"
    /\ escaped = NoException
    /\ pc = "complete" =>
         /\ fetchLog = topics_of_interest
         /\ \A ta \in ReturnedArticles : CallsFor(ta[1], ta[2]) # {}
         /\ sendCalls = 1

(***************************************************************************)
(* C4: when the GET fails at transport level (connection error or           *)
(* non-success HTTP status), fetch_articles returns an empty list and       *)
(* raises nothing; main() adds nothing to the body for the topic and goes   *)
(* on to the next topic.                                                    *)
(***************************************************************************)
C4_TransportFailureSkipsTopic ==
    [][(pc = "http" /\ response.raises \in {"ConnectionError", "HTTPError"}) =>
          /\ escaped' = NoException
          /\ pc' = "topics"
          /\ ti' = ti + 1
          /\ email_body' = email_body
          /\ sumLog' = sumLog
          /\ fetched' = Append(fetched, fetched'[Len(fetched')])
          /\ fetched'[Len(fetched')].result = EmptyList]_vars

C4_Witness ==
    \E t \in ReturnedTopics :
        /\ fetched[t].caught \in {"ConnectionError", "HTTPError"}
        /\ Len(fetchLog) > t

(***************************************************************************)
(* C5: whenever the completion call raises (API error, timeout, a response  *)
(* without a choice or without message text), summarize_article returns the *)
(* sentinel "Could not summarize this article." and no exception leaves it. *)
(***************************************************************************)
C5_CompletionFailureGivesSentinel ==
    [][(pc = "completion" /\ (\/ completion.raises # NoException
                              \/ completion.choices = 0
                              \/ completion.content = NoneValue)) =>
          /\ summary' = CouldNotSentinel
          /\ pc' = "append"
          /\ escaped' = NoException]_vars

C5_Witness ==
    /\ pc = "complete"
    /\ \E k \in 1..Len(sumLog) : sumLog[k].llm /\ sumLog[k].result = CouldNotSentinel
    /\ \E k \in 1..Len(email_body) : email_body[k].summary = CouldNotSentinel

(***************************************************************************)
(* C6: for an empty or None input, summarize_article returns the sentinel   *)
(* "No content provided to summarize." without a request to the completion  *)
(* API; the number of requests never exceeds the number of articles whose   *)
(* selected content is non-empty.                                           *)
(***************************************************************************)
\* the articles selected so far whose text to summarize is not empty
NonEmptySelected ==
    Cardinality({k \in 1..Len(sumLog) : sumLog[k].input \notin {NoneValue, ""}})
    + (IF pc \in {"summarize", "completion"} /\ content_to_summarize \notin {NoneValue, ""}
         THEN 1 ELSE 0)

C6_EmptyInputMakesNoCall ==
    [][/\ (pc = "summarize" /\ content_to_summarize \in {NoneValue, ""}) =>
             /\ summary' = NoContentSentinel
             /\ llmCalls' = llmCalls
             /\ pc' = "append"
       /\ llmCalls' <= NonEmptySelected']_vars

C6_Witness ==
    /\ pc = "complete"
    /\ \E k \in 1..Len(sumLog) : sumLog[k].input = NoneValue /\ sumLog[k].result = NoContentSentinel
    /\ llmCalls = 0

(***************************************************************************)
(* C7: when the SMTP login fails with an authentication error, send_email   *)
(* logs the authentication diagnostic, never calls sendmail and returns     *)
(* normally, so the run ends normally; any other SMTP failure is logged     *)
(* with the generic message and the run ends normally as well.              *)
(***************************************************************************)
C7_SmtpFailureIsLoggedAndAbsorbed ==
    /\ smtpSession = Session("login", "SMTPAuthenticationError") =>
         /\ smtpLog = AuthFailedLog
         /\ sendmailCalls = 0
         /\ pc = "complete"
         /\ escaped = NoException
    /\ (smtpSession # NoSession
        /\ smtpSession.exc \notin {NoException, "SMTPAuthenticationError"}) =>
         /\ smtpLog = SendErrorLog
         /\ pc = "complete"
         /\ escaped = NoException

C7_Witness ==
    /\ smtpSession = Session("login", "SMTPAuthenticationError")
    /\ smtpLog = AuthFailedLog
    /\ pc = "complete"

(***************************************************************************)
(* C8: the body holds the header, then per topic with articles, in topic    *)
(* order, its heading followed by one fragment per article in the order     *)
(* fetched; each fragment carries the title and url of its article and the  *)
(* summary produced by the one summarize_article call made for it.          *)
(***************************************************************************)
Carries(piece, d) ==
    /\ piece.tag = "div"
    /\ HasValue(ArticleAt(d).title) => piece.text = ArticleAt(d).title
    /\ HasValue(ArticleAt(d).url) => piece.href = ArticleAt(d).url
    /\ Cardinality(CallsFor(d[1], d[2])) = 1
    /\ \A k \in CallsFor(d[1], d[2]) : piece.summary = sumLog[k].result

C8_BodyFollowsTopicAndFetchOrder ==
    BetweenTopics =>
        LET lay == Layout(Len(fetched)) IN
        /\ Len(email_body) = Len(lay)
        /\ \A k \in 1..Len(lay) :
             IF lay[k] = <<0, 0>> THEN email_body[k] = Header
             ELSE IF lay[k][2] = 0 THEN email_body[k] = Heading(topics_of_interest[lay[k][1]])
             ELSE Carries(email_body[k], lay[k])

C8_Witness ==
    /\ pc = "complete"
    /\ Cardinality({t \in ReturnedTopics : HasArticles(t)}) >= 2
    /\ \E t \in ReturnedTopics :
         /\ Len(fetched[t].result.list) = 2
         /\ fetched[t].result.list[1] # fetched[t].result.list[2]
    /\ \E k \in 1..Len(sumLog) : sumLog[k].result = "s1"

(***************************************************************************)
(* C9: the text passed to summarize_article is the article's content when   *)
(* that is present and non-empty, else its description, else empty or None; *)
(* it is selected before summarize_article is called for the article.       *)
(***************************************************************************)
SelectionIsAsClaimed(article, selected) ==
    IF NonEmpty(article.content) THEN selected = article.content
    ELSE IF NonEmpty(article.description) THEN selected = article.description
    ELSE selected \in {NoneValue, ""}

C9_ContentThenDescription ==
    /\ pc \in {"summarize", "completion", "append"} =>
         SelectionIsAsClaimed(articles[ai], content_to_summarize)
    /\ \A k \in 1..Len(sumLog) :
         SelectionIsAsClaimed(ArticleAt(<<sumLog[k].topic, sumLog[k].idx>>), sumLog[k].input)
    /\ pc = "article" => CallsFor(ti, ai) = {}

C9_Witness ==
    /\ pc = "append"
    /\ ~NonEmpty(articles[ai].content)
    /\ articles[ai].description = "d1"
    /\ sumLog[Len(sumLog)].input = "d1"
    /\ sumLog[Len(sumLog)].llm

(***************************************************************************)
(* C10: the fragment of an article shows "No Title" whenever the title is   *)
(* absent (key missing or value null) and links to "#" whenever the url is  *)
(* absent; otherwise it shows the article's title linked to its url.        *)
(***************************************************************************)
C10_PlaceholdersForAbsentTitleAndUrl ==
    BetweenTopics =>
        LET lay == Layout(Len(fetched)) IN
        \A k \in 1..Len(lay) :
            (lay[k][2] > 0 /\ k <= Len(email_body)) =>
                /\ email_body[k].text =
                     IF HasValue(ArticleAt(lay[k]).title) THEN ArticleAt(lay[k]).title
                     ELSE NoTitle
                /\ email_body[k].href =
                     IF HasValue(ArticleAt(lay[k]).url) THEN ArticleAt(lay[k]).url
                     ELSE NoUrl

====
